---- MODULE Spec2Model ----
(***************************************************************************)
(* Bias-Auditor: the configuration form (App.tsx, both the credential-     *)
(* collecting and the environment variant), the audit request gateway      *)
(* (services/geminiService.ts) and the exports of the report               *)
(* (components/Dashboard.tsx): the paginated document of handleExportPdf,  *)
(* the JSON file and the two CSV files.                                    *)
(*                                                                         *)
(* Conventions.  A nullable value is a sequence of length at most one:     *)
(* None is null/undefined, Some(x) is x.  A text the code searches with    *)
(* String.includes (an Error's message) is a sequence of fragments, so     *)
(* that includes and toLowerCase are computed rather than assumed; every   *)
(* other text is a string, "" being the empty (falsy) text.                *)
(***************************************************************************)
EXTENDS Integers, Sequences, FiniteSets, TLC

None == <<>>
Some(x) == <<x>>

(***************************************************************************)
(* Bounds of the model.                                                    *)
(***************************************************************************)
\* how many of PROTECTED_ATTRIBUTES the form offers in the model
MaxAttributes == 3
\* how many of DEFAULT_DATASETS the select offers in the model
MaxDatasets == 2
\* how many gateway invocations the model lets be outstanding at once
MaxOutstanding == 2
\* largest projected image height and page height drawn for the export
MaxImageHeight == 12
MaxPageHeight == 5
\* how many html2canvas calls the model lets be outstanding at once
MaxRasterizations == 2

(***************************************************************************)
(* Constants of the program.                                               *)
(***************************************************************************)
PROTECTED_ATTRIBUTES ==
    <<"Gender", "Race", "Age", "Religion", "Disability", "Sexual Orientation">>

DEFAULT_DATASETS ==
    << [name |-> "Loan Application Model",
        description |-> "A model that predicts loan approval based on income, credit score, age, and employment history."],
       [name |-> "Hiring Algorithm Data",
        description |-> "A dataset used to train an algorithm for screening job applicants based on resume keywords, education, and past experience."],
       [name |-> "Criminal Recidivism Prediction",
        description |-> "A model that predicts the likelihood of a defendant re-offending, used for sentencing and parole decisions."] >>

SAMPLE_API_KEY == "YOUR_API-KEY"

Min(a, b) == IF a < b THEN a ELSE b

\* the attribute buttons the form renders
AttributeButtons ==
    {PROTECTED_ATTRIBUTES[i] : i \in 1..Min(MaxAttributes, Len(PROTECTED_ATTRIBUTES))}

\* the values of the dataset select's options
DatasetOptions ==
    {DEFAULT_DATASETS[i].description : i \in 1..Min(MaxDatasets, Len(DEFAULT_DATASETS))}
        \cup {"custom"}

\* what the user may type into the key field and into the custom description
TypedKeys == {"", "sk-user-key"}
TypedDescriptions == {"", "A churn model trained on support tickets."}

\* process.env.API_KEY as the build may have set it
EnvironmentKeys == {"", "env-key"}

(***************************************************************************)
(* Messages.                                                               *)
(***************************************************************************)
MsgProvideKey == <<"Please provide your Gemini API key.">>
MsgSelectAttribute == <<"Please select at least one protected attribute to analyze.">>
MsgDescribeDataset == <<"Please describe your custom dataset or model.">>
MsgUnknown == <<"An unknown error occurred. Please check the console for details.">>
MsgEnvironmentFailure ==
    <<"An error occurred while generating the analysis. Please check the console for details.">>

MsgMissingKey ==
    <<"The Gemini ", "API key", " is missing. Please ensure the API_KEY environment variable is set.">>
MsgGeneric == <<"An error occurred while generating the bias audit.">>
MsgInvalidKey ==
    <<"The Gemini ", "API key", " is invalid or missing. Please check your environment configuration.">>
MsgNetwork ==
    <<"A ", "network", " error occurred while contacting the Gemini API. Please check your internet connection and ensure you can access Google services.">>
UnexpectedPrefix == <<"An unexpected error occurred with the Gemini API: ">>

\* String.prototype.includes, on fragments
Includes(message, fragment) == \E i \in 1..Len(message) : message[i] = fragment

LowerFragment(f) ==
    CASE f = "API key" -> "api key"
      [] f = "Network" -> "network"
      [] f = "Failed to fetch" -> "failed to fetch"
      [] OTHER -> f

\* String.prototype.toLowerCase, on fragments
ToLowerCase(message) == [i \in 1..Len(message) |-> LowerFragment(message[i])]

\* a thrown value: an Error with its message, or a value that is no Error
Error(message) == [isError |-> TRUE, message |-> message]
NotAnError == [isError |-> FALSE, message |-> <<>>]

(***************************************************************************)
(* The audit request gateway: generateBiasAudit.                           *)
(***************************************************************************)
\* the parsed reply: an object whose fields may be absent (None) or empty
Summaries == {None, Some(""), Some("Disparities were found.")}
MetricLists == {None, Some(<<>>), Some(<<"Demographic Parity">>)}
Documents == [summary : Summaries, fairness_metrics : MetricLists]

\* response.text: undefined, or a text that is a JSON document, whole or cut short
ResponseTexts ==
    {None} \cup {Some([wellFormed |-> w, document |-> d]) : w \in BOOLEAN, d \in Documents}

\* what ai.models.generateContent may reject with
UpstreamErrors ==
    { Error(<<"API key", " not valid. Please pass a valid ", "API key", ".">>),
      Error(<<"Failed to fetch">>),
      Error(<<"Network", " request failed while checking the ", "API key">>),
      Error(<<"Quota exceeded for this project.">>),
      NotAnError }

\* how the outbound call ends: it resolves with a response or rejects
UpstreamOutcomes ==
    {[kind |-> "response", text |-> t, thrown |-> NotAnError] : t \in ResponseTexts}
        \cup {[kind |-> "reject", text |-> None, thrown |-> e] : e \in UpstreamErrors}

TypeErrorNoText == Error(<<"Cannot read properties of undefined (reading 'trim')">>)
SyntaxErrorJson == Error(<<"Unexpected end of JSON input">>)

\* JSON.parse: the value a well-formed text denotes, or a SyntaxError
JSONparse(text) ==
    IF text.wellFormed
    THEN [threw |-> FALSE, value |-> Some(text.document), thrown |-> NotAnError]
    ELSE [threw |-> TRUE, value |-> None, thrown |-> SyntaxErrorJson]

\* the try block after the await: response.text.trim(), JSON.parse, the cast
TryBlock(upstream) ==
    IF upstream.kind = "reject"
    THEN [threw |-> TRUE, value |-> None, thrown |-> upstream.thrown]
    ELSE IF upstream.text = None
    THEN [threw |-> TRUE, value |-> None, thrown |-> TypeErrorNoText]
    ELSE JSONparse(upstream.text[1])

\* the catch block: the message of the Error thrown in place of the one caught
MapErrorNoPrecedence(thrown) ==
    IF ~thrown.isError THEN MsgGeneric
    ELSE IF Includes(ToLowerCase(thrown.message), "failed to fetch")
            \/ Includes(ToLowerCase(thrown.message), "network")
    THEN MsgNetwork
    ELSE IF Includes(thrown.message, "API key") THEN MsgInvalidKey
    ELSE UnexpectedPrefix \o thrown.message

\* the last branch without the message of the Error caught
MapErrorDropsOriginalText(thrown) ==
    IF ~thrown.isError THEN MsgGeneric
    ELSE IF Includes(thrown.message, "API key") THEN MsgInvalidKey
    ELSE IF Includes(ToLowerCase(thrown.message), "failed to fetch")
            \/ Includes(ToLowerCase(thrown.message), "network")
    THEN MsgNetwork
    ELSE UnexpectedPrefix

MapError(thrown) ==
    IF ~thrown.isError THEN MsgGeneric
    ELSE IF Includes(thrown.message, "API key") THEN MsgInvalidKey
    ELSE IF Includes(ToLowerCase(thrown.message), "failed to fetch")
            \/ Includes(ToLowerCase(thrown.message), "network")
    THEN MsgNetwork
    ELSE UnexpectedPrefix \o thrown.message

\* the part of generateBiasAudit that runs before its await: the credential
\* check, which rejects without calling, or the one outbound call
GatewayStart(environmentKey) ==
    IF environmentKey = ""
    THEN [state |-> "rejected", outbound |-> 0]
    ELSE [state |-> "pending", outbound |-> 1]

\* how many outbound calls an invocation has made once its catch block ran
OutboundAfterRetry(made, attempt) == IF attempt.threw THEN made + 1 ELSE made

OutboundAfterCatch(made, attempt) == made

\* what an invocation whose outbound call ended with `upstream` settles with
GatewaySettle(upstream) ==
    LET attempt == TryBlock(upstream) IN
    IF attempt.threw
    THEN [ok |-> FALSE, value |-> None, thrown |-> Error(MapError(attempt.thrown))]
    ELSE [ok |-> TRUE, value |-> attempt.value, thrown |-> NotAnError]

\* what an invocation that found no credential settles with
GatewayMissingKey == [ok |-> FALSE, value |-> None, thrown |-> Error(MsgMissingKey)]

(***************************************************************************)
(* State.                                                                  *)
(***************************************************************************)
VARIABLES
    variant,             \* which App is built: "credential" or "environment"
    environmentKey,      \* process.env.API_KEY
    apiKey,              \* App state (credential variant only)
    isSampleKeyVisible,  \* App state (credential variant only)
    selectedDataset,     \* App state: a description, or "custom"
    customDataset,       \* App state
    selectedAttributes,  \* App state: a Set, kept in insertion order
    isLoading,           \* App state
    error,               \* App state: None, or Some(message)
    analysisResult,      \* App state: None, or Some(document)
    pending,             \* the invocations of generateBiasAudit not yet settled
    continuation,        \* "finally" while handleRunAnalysis has its finally block to run
    lastOp,              \* the operation performed last, with its call and outcome
    librariesLoaded,     \* window.jspdf and window.html2canvas are defined
    isGeneratingPdf,     \* Dashboard state
    pdfPc,               \* where handleExportPdf stands
    projectedImageHeight,
    pdfHeight,
    heightLeft,
    position,
    pages,               \* the vertical offset of the image on each page added so far
    saved,               \* pdf.save was called
    alerted,             \* alert was called
    rasterizations,      \* the html2canvas promises not yet settled
    canvasElements,      \* the elements drawn on the canvas html2canvas resolved with
    showExportMenu,      \* Dashboard state
    downloaded           \* the file downloadFile handed to the browser last

appVars ==
    <<variant, environmentKey, apiKey, isSampleKeyVisible, selectedDataset, customDataset,
      selectedAttributes, isLoading, error, analysisResult, pending, continuation, lastOp>>

pdfVars ==
    <<librariesLoaded, isGeneratingPdf, pdfPc, projectedImageHeight, pdfHeight, heightLeft,
      position, pages, saved, alerted, rasterizations, canvasElements>>

exportVars == <<showExportMenu, downloaded>>

vars == <<appVars, pdfVars, exportVars>>

DefaultDataset == DEFAULT_DATASETS[1].description
DefaultAttributes == <<"Gender", "Race">>

Op(name) == [op |-> name, call |-> None, upstream |-> None, outcome |-> None]

\* useState's initial values
AppInit ==
    /\ variant \in {"credential", "environment"}
    /\ environmentKey \in EnvironmentKeys
    /\ apiKey = ""
    /\ isSampleKeyVisible = FALSE
    /\ selectedDataset = DefaultDataset
    /\ customDataset = ""
    /\ selectedAttributes = DefaultAttributes
    /\ isLoading = FALSE
    /\ error = None
    /\ analysisResult = None
    /\ pending = <<>>
    /\ continuation = "none"
    /\ lastOp = Op("init")

\* no Dashboard is mounted
PdfIdle ==
    /\ librariesLoaded = TRUE
    /\ isGeneratingPdf = FALSE
    /\ pdfPc = "idle"
    /\ projectedImageHeight = 0
    /\ pdfHeight = 0
    /\ heightLeft = 0
    /\ position = 0
    /\ pages = <<>>
    /\ saved = FALSE
    /\ alerted = FALSE
    /\ rasterizations = 0
    /\ canvasElements = {}

\* no export menu is open and nothing was downloaded
ExportIdle ==
    /\ showExportMenu = FALSE
    /\ downloaded = None

Init == AppInit /\ PdfIdle /\ ExportIdle

(***************************************************************************)
(* What is rendered.                                                       *)
(***************************************************************************)
FormDisplayedWhileShowing == ~isLoading

\* the form kept on the page while the analysis is loading
FormDisplayedWhileLoading == analysisResult = None

FormDisplayed == analysisResult = None /\ ~isLoading
LoaderDisplayed == isLoading
ReportDisplayed == analysisResult # None

\* selectedDataset === 'custom' ? customDataset : selectedDataset
ResolvedDescription == IF selectedDataset = "custom" THEN customDataset ELSE selectedDataset

\* Array.from(selectedAttributes)
AttributeList == selectedAttributes

\* the disabled attribute of the "Run Bias Analysis" button
SubmitDisabledIgnoringKey == isLoading \/ Len(selectedAttributes) = 0

SubmitDisabled ==
    IF variant = "credential"
    THEN isLoading \/ Len(selectedAttributes) = 0 \/ apiKey = ""
    ELSE isLoading \/ Len(selectedAttributes) = 0

\* the user can act on the page: no handler is in the middle of its run
UserTurn == continuation = "none"

\* the "Run Bias Analysis" button is on the page and enabled
RunButtonClickableWhileLoading ==
    /\ analysisResult = None
    /\ Len(selectedAttributes) # 0
    /\ variant = "credential" => apiKey # ""

RunButtonClickable == FormDisplayed /\ ~SubmitDisabled

\* the "New Analysis" button of the report is on the page and enabled
ResetButtonClickableWhileGenerating == ReportDisplayed

ResetButtonClickable == ReportDisplayed /\ ~isGeneratingPdf

(***************************************************************************)
(* The form's controls.                                                    *)
(***************************************************************************)
setSelectedDataset(value) ==
    /\ UserTurn /\ FormDisplayed
    /\ selectedDataset' = value
    /\ lastOp' = Op("setSelectedDataset")
    /\ UNCHANGED <<variant, environmentKey, apiKey, isSampleKeyVisible, customDataset,
                   selectedAttributes, isLoading, error, analysisResult, pending,
                   continuation, pdfVars, exportVars>>

\* the textarea is rendered only while 'custom' is selected
setCustomDataset(value) ==
    /\ UserTurn /\ FormDisplayed
    /\ selectedDataset = "custom"
    /\ customDataset' = value
    /\ lastOp' = Op("setCustomDataset")
    /\ UNCHANGED <<variant, environmentKey, apiKey, isSampleKeyVisible, selectedDataset,
                   selectedAttributes, isLoading, error, analysisResult, pending,
                   continuation, pdfVars, exportVars>>

Has(set, attribute) == \E i \in 1..Len(set) : set[i] = attribute
Delete(set, attribute) == SelectSeq(set, LAMBDA a : a # attribute)

\* new Set(prev), then delete or add
ToggledAddOnly(prev, attribute) ==
    IF Has(prev, attribute) THEN prev ELSE Append(prev, attribute)

Toggled(prev, attribute) ==
    IF Has(prev, attribute) THEN Delete(prev, attribute) ELSE Append(prev, attribute)

handleAttributeToggle(attribute) ==
    /\ UserTurn /\ FormDisplayed
    /\ selectedAttributes' = Toggled(selectedAttributes, attribute)
    /\ lastOp' = Op("handleAttributeToggle")
    /\ UNCHANGED <<variant, environmentKey, apiKey, isSampleKeyVisible, selectedDataset,
                   customDataset, isLoading, error, analysisResult, pending, continuation,
                   pdfVars, exportVars>>

toggleSampleKeyVisible ==
    /\ UserTurn /\ FormDisplayed
    /\ variant = "credential"
    /\ isSampleKeyVisible' = ~isSampleKeyVisible
    /\ lastOp' = Op("toggleSampleKeyVisible")
    /\ UNCHANGED <<variant, environmentKey, apiKey, selectedDataset, customDataset,
                   selectedAttributes, isLoading, error, analysisResult, pending,
                   continuation, pdfVars, exportVars>>

setApiKey(value) ==
    /\ UserTurn /\ FormDisplayed
    /\ variant = "credential"
    /\ apiKey' = value
    /\ lastOp' = Op("setApiKey")
    /\ UNCHANGED <<variant, environmentKey, isSampleKeyVisible, selectedDataset,
                   customDataset, selectedAttributes, isLoading, error, analysisResult,
                   pending, continuation, pdfVars, exportVars>>

(***************************************************************************)
(* handleRunAnalysis: its guards, the submission, and after the await the  *)
(* try/catch and the finally block.                                        *)
(***************************************************************************)
\* the guards of handleRunAnalysis: the message of the first that fails
GuardFailureNoDescription ==
    IF variant = "credential" /\ apiKey = "" THEN Some(MsgProvideKey)
    ELSE IF Len(selectedAttributes) = 0 THEN Some(MsgSelectAttribute)
    ELSE None

\* the guards tested in the opposite order
GuardFailureDescriptionFirst ==
    IF ResolvedDescription = "" THEN Some(MsgDescribeDataset)
    ELSE IF Len(selectedAttributes) = 0 THEN Some(MsgSelectAttribute)
    ELSE IF variant = "credential" /\ apiKey = "" THEN Some(MsgProvideKey)
    ELSE None

GuardFailure ==
    IF variant = "credential" /\ apiKey = "" THEN Some(MsgProvideKey)
    ELSE IF Len(selectedAttributes) = 0 THEN Some(MsgSelectAttribute)
    ELSE IF ResolvedDescription = "" THEN Some(MsgDescribeDataset)
    ELSE None

\* the invocation generateBiasAudit(datasetDescription, attributes[, apiKey])
Invocation ==
    LET started == GatewayStart(environmentKey) IN
    [ datasetDescription |-> ResolvedDescription,
      protectedAttributes |-> AttributeList,
      apiKey |-> IF variant = "credential" THEN Some(apiKey) ELSE None,
      state |-> started.state,
      outbound |-> started.outbound ]

\* setIsLoading(true) placed above the guards
handleRunAnalysisLoadsBeforeGuards ==
    /\ UserTurn /\ RunButtonClickable
    /\ IF GuardFailure # None
       THEN /\ error' = GuardFailure
            /\ isLoading' = TRUE
            /\ lastOp' = Op("validation")
            /\ UNCHANGED <<analysisResult, pending>>
       ELSE /\ Len(pending) < MaxOutstanding
            /\ isLoading' = TRUE
            /\ error' = None
            /\ analysisResult' = None
            /\ pending' = Append(pending, Invocation)
            /\ lastOp' = [Op("submit") EXCEPT !.call = Some(Invocation)]
    /\ UNCHANGED <<variant, environmentKey, apiKey, isSampleKeyVisible, selectedDataset,
                   customDataset, selectedAttributes, continuation, pdfVars, exportVars>>

\* setError(null) left out of the submission
handleRunAnalysisKeepsError ==
    /\ UserTurn /\ RunButtonClickable
    /\ IF GuardFailure # None
       THEN /\ error' = GuardFailure
            /\ lastOp' = Op("validation")
            /\ UNCHANGED <<isLoading, analysisResult, pending>>
       ELSE /\ Len(pending) < MaxOutstanding
            /\ isLoading' = TRUE
            /\ analysisResult' = None
            /\ pending' = Append(pending, Invocation)
            /\ lastOp' = [Op("submit") EXCEPT !.call = Some(Invocation)]
            /\ UNCHANGED error
    /\ UNCHANGED <<variant, environmentKey, apiKey, isSampleKeyVisible, selectedDataset,
                   customDataset, selectedAttributes, continuation, pdfVars, exportVars>>

handleRunAnalysis ==
    /\ UserTurn /\ RunButtonClickable
    /\ IF GuardFailure # None
       THEN /\ error' = GuardFailure
            /\ lastOp' = Op("validation")
            /\ UNCHANGED <<isLoading, analysisResult, pending>>
       ELSE /\ Len(pending) < MaxOutstanding
            /\ isLoading' = TRUE
            /\ error' = None
            /\ analysisResult' = None
            /\ pending' = Append(pending, Invocation)
            /\ lastOp' = [Op("submit") EXCEPT !.call = Some(Invocation)]
    /\ UNCHANGED <<variant, environmentKey, apiKey, isSampleKeyVisible, selectedDataset,
                   customDataset, selectedAttributes, continuation, pdfVars, exportVars>>

\* the catch block of handleRunAnalysis: the message it shows
CatchMessage(thrown) ==
    IF variant = "credential"
    THEN IF thrown.isError THEN thrown.message ELSE MsgUnknown
    ELSE MsgEnvironmentFailure

RemoveAt(seq, i) == [j \in 1..(Len(seq) - 1) |-> IF j < i THEN seq[j] ELSE seq[j + 1]]

\* the await resumes, and a failed invocation is issued again
ResumeRetries(i, upstream, outcome, outbound) ==
    /\ IF outcome.ok
       THEN /\ analysisResult' = outcome.value
            /\ pending' = RemoveAt(pending, i)
            /\ UNCHANGED error
       ELSE /\ error' = Some(CatchMessage(outcome.thrown))
            /\ pending' = Append(RemoveAt(pending, i), pending[i])
            /\ UNCHANGED analysisResult
    /\ continuation' = "finally"
    /\ lastOp' = [op |-> "settle",
                  call |-> Some([pending[i] EXCEPT !.state = "settled", !.outbound = outbound]),
                  upstream |-> upstream,
                  outcome |-> Some(outcome)]
    /\ UNCHANGED <<variant, environmentKey, apiKey, isSampleKeyVisible, selectedDataset,
                   customDataset, selectedAttributes, isLoading, pdfVars, exportVars>>

\* the await resumes, and only the summary of the returned value is kept
ResumeKeepsSummaryOnly(i, upstream, outcome, outbound) ==
    /\ IF outcome.ok
       THEN /\ analysisResult' = Some([outcome.value[1] EXCEPT !.fairness_metrics = None])
            /\ UNCHANGED error
       ELSE error' = Some(CatchMessage(outcome.thrown)) /\ UNCHANGED analysisResult
    /\ pending' = RemoveAt(pending, i)
    /\ continuation' = "finally"
    /\ lastOp' = [op |-> "settle",
                  call |-> Some([pending[i] EXCEPT !.state = "settled", !.outbound = outbound]),
                  upstream |-> upstream,
                  outcome |-> Some(outcome)]
    /\ UNCHANGED <<variant, environmentKey, apiKey, isSampleKeyVisible, selectedDataset,
                   customDataset, selectedAttributes, isLoading, pdfVars, exportVars>>

\* invocation i settles and the await resumes: setAnalysisResult or setError
Resume(i, upstream, outcome, outbound) ==
    /\ IF outcome.ok
       THEN analysisResult' = outcome.value /\ UNCHANGED error
       ELSE error' = Some(CatchMessage(outcome.thrown)) /\ UNCHANGED analysisResult
    /\ pending' = RemoveAt(pending, i)
    /\ continuation' = "finally"
    /\ lastOp' = [op |-> "settle",
                  call |-> Some([pending[i] EXCEPT !.state = "settled", !.outbound = outbound]),
                  upstream |-> upstream,
                  outcome |-> Some(outcome)]
    /\ UNCHANGED <<variant, environmentKey, apiKey, isSampleKeyVisible, selectedDataset,
                   customDataset, selectedAttributes, isLoading, pdfVars, exportVars>>

\* an invocation that found no credential: its promise is already rejected
SettleMissingKey ==
    /\ continuation = "none"
    /\ \E i \in 1..Len(pending) :
          /\ pending[i].state = "rejected"
          /\ Resume(i, None, GatewayMissingKey, pending[i].outbound)

\* an invocation whose outbound call ends
SettleUpstream ==
    /\ continuation = "none"
    /\ \E i \in 1..Len(pending), upstream \in UpstreamOutcomes :
          /\ pending[i].state = "pending"
          /\ Resume(i, Some(upstream), GatewaySettle(upstream),
                    OutboundAfterCatch(pending[i].outbound, TryBlock(upstream)))

\* the finally block: setIsLoading(false)
RunFinallyKeepsLoading ==
    /\ continuation = "finally"
    /\ continuation' = "none"
    /\ lastOp' = [lastOp EXCEPT !.op = "finally"]
    /\ UNCHANGED <<variant, environmentKey, apiKey, isSampleKeyVisible, selectedDataset,
                   customDataset, selectedAttributes, isLoading, error, analysisResult,
                   pending, pdfVars, exportVars>>

RunFinally ==
    /\ continuation = "finally"
    /\ isLoading' = FALSE
    /\ continuation' = "none"
    /\ lastOp' = [lastOp EXCEPT !.op = "finally"]
    /\ UNCHANGED <<variant, environmentKey, apiKey, isSampleKeyVisible, selectedDataset,
                   customDataset, selectedAttributes, error, analysisResult, pending,
                   pdfVars, exportVars>>

(***************************************************************************)
(* resetAnalysis, the report's onReset.                                    *)
(***************************************************************************)
resetAnalysisKeepsCustom ==
    /\ UserTurn /\ ResetButtonClickable
    /\ analysisResult' = None
    /\ error' = None
    /\ IF variant = "credential"
       THEN apiKey' = "" /\ isSampleKeyVisible' = FALSE
       ELSE UNCHANGED <<apiKey, isSampleKeyVisible>>
    /\ selectedDataset' = DefaultDataset
    /\ selectedAttributes' = DefaultAttributes
    /\ lastOp' = Op("reset")
    /\ UNCHANGED <<variant, environmentKey, customDataset, isLoading, pending,
                   continuation, pdfVars, exportVars>>

resetAnalysis ==
    /\ UserTurn /\ ResetButtonClickable
    /\ analysisResult' = None
    /\ error' = None
    /\ IF variant = "credential"
       THEN apiKey' = "" /\ isSampleKeyVisible' = FALSE
       ELSE UNCHANGED <<apiKey, isSampleKeyVisible>>
    /\ selectedDataset' = DefaultDataset
    /\ customDataset' = ""
    /\ selectedAttributes' = DefaultAttributes
    /\ lastOp' = Op("reset")
    /\ UNCHANGED <<variant, environmentKey, isLoading, pending, continuation, pdfVars, exportVars>>

Next ==
    \/ \E value \in DatasetOptions : setSelectedDataset(value)
    \/ \E value \in TypedDescriptions : setCustomDataset(value)
    \/ \E attribute \in AttributeButtons : handleAttributeToggle(attribute)
    \/ toggleSampleKeyVisible
    \/ \E value \in TypedKeys \cup {SAMPLE_API_KEY} : setApiKey(value)
    \/ handleRunAnalysis
    \/ SettleMissingKey
    \/ SettleUpstream
    \/ RunFinally
    \/ resetAnalysis

Spec == Init /\ [][Next]_vars

(***************************************************************************)
(* handleRunAnalysis as a function of the form's fields: the handler called *)
(* in any state of the form, whatever the button's disabled attribute says. *)
(***************************************************************************)
\* the states the fields of the form can be in
InitGuards ==
    /\ variant \in {"credential", "environment"}
    /\ environmentKey \in EnvironmentKeys
    /\ apiKey \in (IF variant = "credential" THEN TypedKeys \cup {SAMPLE_API_KEY} ELSE {""})
    /\ isSampleKeyVisible = FALSE
    /\ selectedDataset \in DatasetOptions
    /\ customDataset \in TypedDescriptions
    /\ selectedAttributes \in {<<>>, <<"Race">>, DefaultAttributes}
    /\ isLoading = FALSE
    /\ error = None
    /\ analysisResult = None
    /\ pending = <<>>
    /\ continuation = "none"
    /\ lastOp = Op("init")
    /\ PdfIdle
    /\ ExportIdle

\* the body of handleRunAnalysis up to the await
callRunAnalysis ==
    /\ UserTurn /\ FormDisplayed
    /\ IF GuardFailure # None
       THEN /\ error' = GuardFailure
            /\ lastOp' = Op("validation")
            /\ UNCHANGED <<isLoading, analysisResult, pending>>
       ELSE /\ Len(pending) < MaxOutstanding
            /\ isLoading' = TRUE
            /\ error' = None
            /\ analysisResult' = None
            /\ pending' = Append(pending, Invocation)
            /\ lastOp' = [Op("submit") EXCEPT !.call = Some(Invocation)]
    /\ UNCHANGED <<variant, environmentKey, apiKey, isSampleKeyVisible, selectedDataset,
                   customDataset, selectedAttributes, continuation, pdfVars, exportVars>>

NextGuards == callRunAnalysis

SpecGuards == InitGuards /\ [][NextGuards]_vars

\* handleAttributeToggle applied, again and again, to every such state
NextToggle == \E attribute \in AttributeButtons : handleAttributeToggle(attribute)

SpecToggle == InitGuards /\ [][NextToggle]_vars

(***************************************************************************)
(* handleExportPdf of the report (Dashboard): the guard, the rasterization *)
(* it awaits, and the pagination of the image.  Heights are whole numbers  *)
(* of one unit of length, so the subtractions are exact.                   *)
(***************************************************************************)
\* the report is on the page with a complete result held
ShownDocument == [summary |-> Some("Disparities were found."),
                  fairness_metrics |-> Some(<<"Demographic Parity">>)]

ShownInvocation ==
    [ datasetDescription |-> DefaultDataset,
      protectedAttributes |-> DefaultAttributes,
      apiKey |-> IF variant = "credential" THEN Some(SAMPLE_API_KEY) ELSE None,
      state |-> "settled",
      outbound |-> 1 ]

ShownUpstream ==
    [kind |-> "response", text |-> Some([wellFormed |-> TRUE, document |-> ShownDocument]),
     thrown |-> NotAnError]

ReportShown ==
    /\ variant \in {"credential", "environment"}
    /\ environmentKey = "env-key"
    /\ apiKey = IF variant = "credential" THEN SAMPLE_API_KEY ELSE ""
    /\ isSampleKeyVisible = FALSE
    /\ selectedDataset = DefaultDataset
    /\ customDataset = ""
    /\ selectedAttributes = DefaultAttributes
    /\ isLoading = FALSE
    /\ error = None
    /\ analysisResult = Some(ShownDocument)
    /\ pending = <<>>
    /\ continuation = "none"
    /\ lastOp = [op |-> "finally", call |-> Some(ShownInvocation),
                 upstream |-> Some(ShownUpstream), outcome |-> Some(GatewaySettle(ShownUpstream))]

InitPdf ==
    /\ ReportShown
    /\ librariesLoaded \in BOOLEAN
    /\ isGeneratingPdf = FALSE
    /\ pdfPc = "idle"
    /\ projectedImageHeight = 0
    /\ pdfHeight = 0
    /\ heightLeft = 0
    /\ position = 0
    /\ pages = <<>>
    /\ saved = FALSE
    /\ alerted = FALSE
    /\ rasterizations = 0
    /\ canvasElements = {}
    /\ ExportIdle

\* the "Export Report" button is enabled
ExportMenuButtonClickable == ReportDisplayed /\ ~isGeneratingPdf

\* an item of the export menu is on the page and enabled
ExportMenuItemClickable == ReportDisplayed /\ showExportMenu /\ ~isGeneratingPdf

\* setShowExportMenu(prev => !prev)
toggleExportMenu ==
    /\ UserTurn /\ ExportMenuButtonClickable
    /\ pdfPc = "idle"
    /\ showExportMenu' = ~showExportMenu
    /\ UNCHANGED <<downloaded, appVars, pdfVars>>

\* the controls inside <div ref={reportRef}> and the elements that hold them
ReportElements ==
    {"report", "header", "controls", "exportMenu", "ExportReport", "menuItems", "DownloadJson",
     "DownloadPdf", "SaveToDrive", "NewAnalysis", "metricsCard", "ExportMetricsCsv",
     "mitigationCard", "ExportMitigationCsv"}

\* the buttons among them
ExportControls ==
    {"ExportReport", "DownloadJson", "DownloadPdf", "SaveToDrive", "NewAnalysis",
     "ExportMetricsCsv", "ExportMitigationCsv"}

\* the element each element is a child of
Parent(element) ==
    CASE element \in {"header", "metricsCard", "mitigationCard"} -> "report"
      [] element = "controls" -> "header"
      [] element \in {"exportMenu", "NewAnalysis"} -> "controls"
      [] element \in {"ExportReport", "menuItems"} -> "exportMenu"
      [] element \in {"DownloadJson", "DownloadPdf", "SaveToDrive"} -> "menuItems"
      [] element = "ExportMetricsCsv" -> "metricsCard"
      [] element = "ExportMitigationCsv" -> "mitigationCard"
      [] OTHER -> "report"

\* className
ClassList(element) ==
    CASE element = "report" -> {"space-y-8"}
      [] element = "controls" -> {"pdf-export-ignore", "flex", "items-center", "gap-4"}
      [] element = "exportMenu" -> {"relative"}
      [] element \in {"ExportMetricsCsv", "ExportMitigationCsv"} ->
            {"text-gray-400", "transition-colors", "p-1", "rounded-full"}
      [] element = "NewAnalysis" -> {"bg-gray-700", "text-gray-300", "font-semibold"}
      [] element = "ExportReport" -> {"bg-red-600", "text-white", "font-semibold"}
      [] OTHER -> {"bg-gray-800"}

\* {showExportMenu && ...}: the items are in the document while the menu is open
Rendered(element) ==
    element \in {"menuItems", "DownloadJson", "DownloadPdf", "SaveToDrive"} => showExportMenu

\* ignoreElements: (element) => element.classList.contains('pdf-export-ignore')
ignoreElements(element) == "pdf-export-ignore" \in ClassList(element)

\* html2canvas leaves out an ignored element with everything inside it
RECURSIVE Ignored(_)
Ignored(element) ==
    \/ ignoreElements(element)
    \/ element # "report" /\ Ignored(Parent(element))

\* what html2canvas(reportElement, ...) draws
Rasterized == {element \in ReportElements : Rendered(element) /\ ~Ignored(element)}

\* the menu item is enabled and the guard of line 71 passes
PdfExportStartsWhileGenerating == ReportDisplayed

PdfExportStarts ==
    /\ ExportMenuItemClickable
    /\ ~(~ReportDisplayed \/ isGeneratingPdf)

\* up to the await: the guard, the library check, setIsGeneratingPdf(true)
handleExportPdf ==
    /\ UserTurn /\ pdfPc \in {"idle", "rasterizing"}
    /\ PdfExportStarts
    /\ rasterizations < MaxRasterizations
    /\ IF ~librariesLoaded
       THEN /\ alerted' = TRUE
            /\ UNCHANGED <<isGeneratingPdf, pdfPc, showExportMenu, rasterizations>>
       ELSE /\ alerted' = FALSE
            /\ isGeneratingPdf' = TRUE
            /\ showExportMenu' = FALSE
            /\ pdfPc' = "rasterizing"
            /\ rasterizations' = rasterizations + 1
    /\ pages' = <<>>
    /\ saved' = FALSE
    /\ canvasElements' = {}
    /\ UNCHANGED <<librariesLoaded, projectedImageHeight, pdfHeight, heightLeft, position,
                   appVars, downloaded>>

\* html2canvas resolves: the page and image sizes, the first addImage
CanvasResolves(imageHeight, pageHeight) ==
    /\ pdfPc = "rasterizing"
    /\ rasterizations' = rasterizations - 1
    /\ canvasElements' = Rasterized
    /\ projectedImageHeight' = imageHeight
    /\ pdfHeight' = pageHeight
    /\ position' = 0
    /\ pages' = <<0>>
    /\ heightLeft' = imageHeight - pageHeight
    /\ pdfPc' = "paginating"
    /\ UNCHANGED <<librariesLoaded, isGeneratingPdf, saved, alerted, appVars, exportVars>>

\* the condition of the while loop
LoopContinuesAtZero(left) == left >= 0

LoopContinues(left) == left > 0

\* one pass of the while loop without `position -= pdfHeight`
AddPageSamePosition ==
    /\ pdfPc = "paginating"
    /\ LoopContinues(heightLeft)
    /\ pages' = Append(pages, position)
    /\ heightLeft' = heightLeft - pdfHeight
    /\ UNCHANGED <<librariesLoaded, isGeneratingPdf, pdfPc, projectedImageHeight, pdfHeight,
                   position, saved, alerted, rasterizations, canvasElements, appVars,
                   exportVars>>

\* one pass of the while loop: addPage, addImage
AddPage ==
    /\ pdfPc = "paginating"
    /\ LoopContinues(heightLeft)
    /\ position' = position - pdfHeight
    /\ pages' = Append(pages, position - pdfHeight)
    /\ heightLeft' = heightLeft - pdfHeight
    /\ UNCHANGED <<librariesLoaded, isGeneratingPdf, pdfPc, projectedImageHeight, pdfHeight,
                   saved, alerted, rasterizations, canvasElements, appVars, exportVars>>

\* the loop is left: pdf.save
SavePdf ==
    /\ pdfPc = "paginating"
    /\ ~LoopContinues(heightLeft)
    /\ saved' = TRUE
    /\ pdfPc' = "finally"
    /\ UNCHANGED <<librariesLoaded, isGeneratingPdf, projectedImageHeight, pdfHeight,
                   heightLeft, position, pages, alerted, rasterizations, canvasElements,
                   appVars, exportVars>>

\* html2canvas rejects, and the handler ends in its catch block
CanvasRejectsSkipsFinally ==
    /\ pdfPc = "rasterizing"
    /\ rasterizations' = rasterizations - 1
    /\ alerted' = TRUE
    /\ pdfPc' = "idle"
    /\ UNCHANGED <<librariesLoaded, isGeneratingPdf, projectedImageHeight, pdfHeight,
                   heightLeft, position, pages, saved, canvasElements, appVars, exportVars>>

\* html2canvas rejects: the catch block alerts
CanvasRejects ==
    /\ pdfPc = "rasterizing"
    /\ rasterizations' = rasterizations - 1
    /\ alerted' = TRUE
    /\ pdfPc' = "finally"
    /\ UNCHANGED <<librariesLoaded, isGeneratingPdf, projectedImageHeight, pdfHeight,
                   heightLeft, position, pages, saved, canvasElements, appVars, exportVars>>

\* addPage, addImage or save throws: the catch block alerts
DocumentThrows ==
    /\ pdfPc = "paginating"
    /\ alerted' = TRUE
    /\ pdfPc' = "finally"
    /\ UNCHANGED <<librariesLoaded, isGeneratingPdf, projectedImageHeight, pdfHeight,
                   heightLeft, position, pages, saved, rasterizations, canvasElements,
                   appVars, exportVars>>

\* the finally block: setIsGeneratingPdf(false)
ExportFinally ==
    /\ pdfPc = "finally"
    /\ isGeneratingPdf' = FALSE
    /\ pdfPc' = "idle"
    /\ UNCHANGED <<librariesLoaded, projectedImageHeight, pdfHeight, heightLeft, position,
                   pages, saved, alerted, rasterizations, canvasElements, appVars,
                   exportVars>>

NextPdf ==
    \/ toggleExportMenu
    \/ handleExportPdf
    \/ \E imageHeight \in 1..MaxImageHeight, pageHeight \in 1..MaxPageHeight :
          CanvasResolves(imageHeight, pageHeight)
    \/ AddPage
    \/ SavePdf
    \/ CanvasRejects
    \/ DocumentThrows
    \/ ExportFinally

SpecPdf == InitPdf /\ [][NextPdf]_vars

(***************************************************************************)
(* The report's exports (Dashboard): handleExportJson and the two CSV      *)
(* exports.  A text is a sequence of fragments; the characters the formats *)
(* give a meaning to (quote, backslash, comma, line feed) are fragments of *)
(* their own, so that quoting and escaping are computed.  A number is held *)
(* in hundredths.                                                          *)
(***************************************************************************)
\* how many metrics, scores per list and strategies a drawn result holds
MaxMetrics == 3
MaxGroups == 2
MaxStrategies == 2

Quote == "\""
Backslash == "\\"
Comma == ","
LineFeed == "\n"

RECURSIVE Flatten(_)
\* the concatenation of a sequence of texts
Flatten(texts) == IF texts = <<>> THEN <<>> ELSE Head(texts) \o Flatten(Tail(texts))

\* Number::toString of a number held in hundredths: no trailing zero
NumberToString(n) ==
    LET a == IF n < 0 THEN 0 - n ELSE n
        tenths == (a % 100) \div 10
        hundredths == a % 10
    IN  (IF n < 0 THEN <<"-">> ELSE <<>>)
            \o <<ToString(a \div 100)>>
            \o (IF a % 100 = 0 THEN <<>>
                ELSE <<".", ToString(tenths)>>
                        \o (IF hundredths = 0 THEN <<>> ELSE <<ToString(hundredths)>>))

\* the shape of AnalysisResult (types.ts): the kind of each value
ArrayKinds == {"strings", "scores", "metrics", "strategies"}
ObjectKinds == {"score", "metric", "beforeAfter", "strategy", "result"}

ElementKind(kind) ==
    CASE kind = "strings" -> "string"
      [] kind = "scores" -> "score"
      [] kind = "metrics" -> "metric"
      [] kind = "strategies" -> "strategy"

\* the properties of an object, in the order they were inserted
Keys(kind) ==
    CASE kind = "score" -> <<"group", "score">>
      [] kind = "metric" -> <<"name", "description", "scores">>
      [] kind = "beforeAfter" -> <<"before", "after">>
      [] kind = "strategy" -> <<"name", "description", "before_after_metrics", "metric_name">>
      [] kind = "result" ->
            <<"summary", "fairness_metrics", "mitigation_strategies", "references">>

PropertyKind(kind, key) ==
    CASE kind = "score" /\ key = "score" -> "number"
      [] kind = "metric" /\ key = "scores" -> "scores"
      [] kind = "beforeAfter" -> "scores"
      [] kind = "strategy" /\ key = "before_after_metrics" -> "beforeAfter"
      [] kind = "result" /\ key = "fairness_metrics" -> "metrics"
      [] kind = "result" /\ key = "mitigation_strategies" -> "strategies"
      [] kind = "result" /\ key = "references" -> "strings"
      [] OTHER -> "string"

\* JSON.stringify's QuoteJSONString, without the quotes: nothing is escaped
EscapeNothing(text) == text

\* JSON.stringify's QuoteJSONString, without the quotes
Escape(text) ==
    Flatten([i \in 1..Len(text) |->
                CASE text[i] = Quote -> <<Backslash, Quote>>
                  [] text[i] = Backslash -> <<Backslash, Backslash>>
                  [] text[i] = LineFeed -> <<Backslash, "n">>
                  [] OTHER -> <<text[i]>>])

\* the gap of JSON.stringify(value, null, 2) at a depth
Indent(depth) == [i \in 1..depth |-> "  "]

RECURSIVE Stringify(_, _, _)
RECURSIVE StringifyElements(_, _, _, _)
RECURSIVE StringifyProperties(_, _, _, _)

\* the elements of an array from the i-th on, one on a line
StringifyElements(kind, array, depth, i) ==
    Indent(depth) \o Stringify(ElementKind(kind), array[i], depth)
        \o (IF i = Len(array) THEN <<LineFeed>>
            ELSE <<Comma, LineFeed>> \o StringifyElements(kind, array, depth, i + 1))

\* the properties of an object from the i-th key on, one on a line
StringifyProperties(kind, object, depth, i) ==
    LET key == Keys(kind)[i] IN
    Indent(depth) \o <<Quote, key, Quote, ":", " ">>
        \o Stringify(PropertyKind(kind, key), object[key], depth)
        \o (IF i = Len(Keys(kind)) THEN <<LineFeed>>
            ELSE <<Comma, LineFeed>> \o StringifyProperties(kind, object, depth, i + 1))

\* JSON.stringify(value, null, 2) of a value of a kind, at a depth
Stringify(kind, value, depth) ==
    CASE kind = "string" -> <<Quote>> \o Escape(value) \o <<Quote>>
      [] kind = "number" -> NumberToString(value)
      [] kind \in ArrayKinds ->
            IF value = <<>> THEN <<"[", "]">>
            ELSE <<"[", LineFeed>> \o StringifyElements(kind, value, depth + 1, 1)
                    \o Indent(depth) \o <<"]">>
      [] kind \in ObjectKinds ->
            <<"{", LineFeed>> \o StringifyProperties(kind, value, depth + 1, 1)
                \o Indent(depth) \o <<"}">>

JSONstringify(result) == Stringify("result", result, 0)

(***************************************************************************)
(* JSON.parse of such a text, as the reader of the exported file runs it:  *)
(* a parse yields the value read and the text that follows it.             *)
(***************************************************************************)
WhiteSpace == {" ", "  ", LineFeed}

Failed == [ok |-> FALSE, value |-> <<>>, rest |-> <<>>]
Parsed(value, rest) == [ok |-> TRUE, value |-> value, rest |-> rest]

RECURSIVE SkipWhiteSpace(_)
SkipWhiteSpace(text) ==
    IF text # <<>> /\ Head(text) \in WhiteSpace THEN SkipWhiteSpace(Tail(text)) ELSE text

\* the character an escape sequence denotes
Unescape(fragment) == IF fragment = "n" THEN LineFeed ELSE fragment

RECURSIVE ParseCharacters(_, _)
\* the characters of a string up to its closing quote
ParseCharacters(text, read) ==
    IF text = <<>> THEN Failed
    ELSE IF Head(text) = Quote THEN Parsed(read, Tail(text))
    ELSE IF Head(text) = Backslash
    THEN IF Len(text) < 2 THEN Failed
         ELSE ParseCharacters(Tail(Tail(text)), Append(read, Unescape(text[2])))
    ELSE ParseCharacters(Tail(text), Append(read, Head(text)))

ParseString(text) ==
    IF text # <<>> /\ Head(text) = Quote THEN ParseCharacters(Tail(text), <<>>) ELSE Failed

IsDigit(fragment) == \E d \in 0..9 : ToString(d) = fragment
DigitValue(fragment) == CHOOSE d \in 0..9 : ToString(d) = fragment

\* a numeral: an optional sign, the whole part, at most two decimals
ParseNumber(text) ==
    LET negative == text # <<>> /\ Head(text) = "-"
        digits == IF negative THEN Tail(text) ELSE text
        sign == IF negative THEN 0 - 1 ELSE 1
    IN  IF digits = <<>> \/ ~IsDigit(digits[1]) THEN Failed
        ELSE LET whole == 100 * DigitValue(digits[1]) IN
             IF Len(digits) >= 3 /\ digits[2] = "." /\ IsDigit(digits[3])
             THEN IF Len(digits) >= 4 /\ IsDigit(digits[4])
                  THEN Parsed(sign * (whole + 10 * DigitValue(digits[3]) + DigitValue(digits[4])),
                              SubSeq(digits, 5, Len(digits)))
                  ELSE Parsed(sign * (whole + 10 * DigitValue(digits[3])),
                              SubSeq(digits, 4, Len(digits)))
             ELSE Parsed(sign * whole, Tail(digits))

RECURSIVE Parse(_, _)
RECURSIVE ParseElements(_, _, _)
RECURSIVE ParseProperties(_, _, _)

\* the elements of an array after its first, up to the closing bracket
ParseElements(kind, text, read) ==
    LET next == SkipWhiteSpace(text) IN
    IF next = <<>> THEN Failed
    ELSE IF Head(next) = "]" THEN Parsed(read, Tail(next))
    ELSE IF Head(next) # Comma THEN Failed
    ELSE LET element == Parse(ElementKind(kind), Tail(next)) IN
         IF ~element.ok THEN Failed
         ELSE ParseElements(kind, element.rest, Append(read, element.value))

\* one property of an object: its key, the colon, its value
ParseProperty(kind, text) ==
    LET key == ParseString(SkipWhiteSpace(text)) IN
    IF ~key.ok \/ Len(key.value) # 1 THEN Failed
    ELSE LET colon == SkipWhiteSpace(key.rest) IN
         IF colon = <<>> \/ Head(colon) # ":" THEN Failed
         ELSE LET value == Parse(PropertyKind(kind, key.value[1]), Tail(colon)) IN
              IF ~value.ok THEN Failed
              ELSE Parsed([key |-> key.value[1], value |-> value.value], value.rest)

\* the properties of an object after its first, up to the closing brace
ParseProperties(kind, text, read) ==
    LET next == SkipWhiteSpace(text) IN
    IF next = <<>> THEN Failed
    ELSE IF Head(next) = "}" THEN Parsed(read, Tail(next))
    ELSE IF Head(next) # Comma THEN Failed
    ELSE LET property == ParseProperty(kind, Tail(next)) IN
         IF ~property.ok THEN Failed
         ELSE ParseProperties(kind, property.rest,
                              (property.value.key :> property.value.value) @@ read)

\* the value of a kind that a text starts with
Parse(kind, text) ==
    LET start == SkipWhiteSpace(text) IN
    IF start = <<>> THEN Failed
    ELSE CASE kind = "string" -> ParseString(start)
           [] kind = "number" -> ParseNumber(start)
           [] kind \in ArrayKinds ->
                 IF Head(start) # "[" THEN Failed
                 ELSE LET inside == SkipWhiteSpace(Tail(start)) IN
                      IF inside # <<>> /\ Head(inside) = "]" THEN Parsed(<<>>, Tail(inside))
                      ELSE LET first == Parse(ElementKind(kind), inside) IN
                           IF ~first.ok THEN Failed
                           ELSE ParseElements(kind, first.rest, <<first.value>>)
           [] kind \in ObjectKinds ->
                 IF Head(start) # "{" THEN Failed
                 ELSE LET inside == SkipWhiteSpace(Tail(start)) IN
                      IF inside # <<>> /\ Head(inside) = "}" THEN Parsed(<<>>, Tail(inside))
                      ELSE LET first == ParseProperty(kind, inside) IN
                           IF ~first.ok THEN Failed
                           ELSE ParseProperties(kind, first.rest,
                                                first.value.key :> first.value.value)

\* JSON.parse(text): the value read, when the whole text is one value
JSONparseExport(text) ==
    LET parsed == Parse("result", text) IN
    IF parsed.ok /\ SkipWhiteSpace(parsed.rest) = <<>> THEN Some(parsed.value) ELSE None

(***************************************************************************)
(* The CSV exports.                                                        *)
(***************************************************************************)
MetricsCsvHeader ==
    <<Quote, "Metric Name", Quote, Comma, Quote, "Group", Quote, Comma,
      Quote, "Score", Quote, LineFeed>>

\* the group written as the score is: without quotes
MetricsCsvRowBareGroup(metric, score) ==
    <<Quote>> \o metric.name \o <<Quote, Comma>> \o score.group \o <<Comma>>
        \o NumberToString(score.score) \o <<LineFeed>>

\* `"${metric.name}","${score.group}",${score.score}\n`
MetricsCsvRow(metric, score) ==
    <<Quote>> \o metric.name \o <<Quote, Comma, Quote>> \o score.group \o <<Quote, Comma>>
        \o NumberToString(score.score) \o <<LineFeed>>

\* one row per metric, for its first score
MetricsCsvFirstScoreOnly(result) ==
    MetricsCsvHeader
        \o Flatten([i \in 1..Len(result.fairness_metrics) |->
                LET metric == result.fairness_metrics[i] IN
                IF metric.scores = <<>> THEN <<>>
                ELSE MetricsCsvRow(metric, metric.scores[1])])

\* csvContent of handleExportMetricsCsv: the header, then the two forEach
MetricsCsv(result) ==
    MetricsCsvHeader
        \o Flatten([i \in 1..Len(result.fairness_metrics) |->
                LET metric == result.fairness_metrics[i] IN
                Flatten([j \in 1..Len(metric.scores) |-> MetricsCsvRow(metric, metric.scores[j])])])

MitigationCsvHeader ==
    <<Quote, "Strategy Name", Quote, Comma, Quote, "Metric Name", Quote, Comma,
      Quote, "Status", Quote, Comma, Quote, "Group", Quote, Comma, Quote, "Score", Quote,
      LineFeed>>

\* `"${strategy.name}","${strategy.metric_name}","Before","${score.group}",${score.score}\n`
MitigationCsvRow(strategy, status, score) ==
    <<Quote>> \o strategy.name \o <<Quote, Comma, Quote>> \o strategy.metric_name
        \o <<Quote, Comma, Quote, status, Quote, Comma, Quote>> \o score.group
        \o <<Quote, Comma>> \o NumberToString(score.score) \o <<LineFeed>>

\* the rows of one list of scores of a strategy
StatusRows(strategy, status, scores) ==
    Flatten([j \in 1..Len(scores) |-> MitigationCsvRow(strategy, status, scores[j])])

\* the two loops of a strategy in the other order
MitigationCsvAfterFirst(result) ==
    MitigationCsvHeader
        \o Flatten([i \in 1..Len(result.mitigation_strategies) |->
                LET strategy == result.mitigation_strategies[i] IN
                StatusRows(strategy, "After", strategy.before_after_metrics.after)
                    \o StatusRows(strategy, "Before", strategy.before_after_metrics.before)])

\* csvContent of handleExportMitigationCsv
MitigationCsv(result) ==
    MitigationCsvHeader
        \o Flatten([i \in 1..Len(result.mitigation_strategies) |->
                LET strategy == result.mitigation_strategies[i] IN
                StatusRows(strategy, "Before", strategy.before_after_metrics.before)
                    \o StatusRows(strategy, "After", strategy.before_after_metrics.after)])

(***************************************************************************)
(* The results drawn for the exports: valid AnalysisResult values, every   *)
(* property present.  Names and groups include a quote, a comma, a         *)
(* backslash and a line feed; scores include a negative one.               *)
(***************************************************************************)
Cyclic(seq, i) == seq[((i - 1) % Len(seq)) + 1]

MetricNames ==
    << <<"Demographic Parity">>,
       <<"Equal ", Quote, "Opportunity", Quote>>,
       <<"Disparate Impact">>,
       <<"Predictive Parity">> >>

StrategyNames ==
    << <<"Reweighing">>, <<"Adversarial Debiasing", Comma, " in-processing">>,
       <<"Threshold Adjustment">> >>

GroupScores ==
    << [group |-> <<"Male">>, score |-> 85],
       [group |-> <<"Female">>, score |-> 60],
       [group |-> <<"Asian", Comma, " Pacific Islander">>, score |-> 100],
       [group |-> <<"Age 40+">>, score |-> 0 - 5],
       [group |-> <<"Non-binary">>, score |-> 7] >>

\* a list of `count` scores
DrawnScores(offset, count) == [j \in 1..count |-> Cyclic(GroupScores, offset + j)]

DrawnMetric(i, count) ==
    [ name |-> Cyclic(MetricNames, i),
      description |-> <<"Compares the rate of favourable outcomes between groups.">>,
      scores |-> DrawnScores(i - 1, count) ]

DrawnStrategy(i, before, after) ==
    [ name |-> Cyclic(StrategyNames, i),
      description |-> <<"Applied to the training data.">>,
      before_after_metrics |-> [before |-> DrawnScores(i - 1, before),
                                after |-> DrawnScores(i, after)],
      metric_name |-> Cyclic(MetricNames, i) ]

DrawnMetricLists ==
    UNION { {[i \in 1..m |-> DrawnMetric(i, counts[i])] : counts \in [1..m -> 0..MaxGroups]}
            : m \in 0..MaxMetrics }

\* lists of strategies: the first has `before` and `after` scores, and each
\* further one has one more of each, counted round within 0..MaxGroups
DrawnStrategyLists ==
    UNION { {[i \in 1..s |->
                 DrawnStrategy(i, (before + i - 1) % (MaxGroups + 1),
                                  (after + i - 1) % (MaxGroups + 1))]
                : before \in 0..MaxGroups, after \in 0..MaxGroups}
            : s \in 0..MaxStrategies }

DrawnResult(metrics, strategies) ==
    [ summary |-> <<"Disparities were found", LineFeed, "see C:", Backslash, "audit">>,
      fairness_metrics |-> metrics,
      mitigation_strategies |-> strategies,
      references |-> << <<"Barocas, Hardt, Narayanan: Fairness and Machine Learning">> >> ]

\* MaxMetrics metrics of MaxGroups groups each, one strategy
SampleMetrics == [i \in 1..MaxMetrics |-> DrawnMetric(i, MaxGroups)]
SampleStrategies == <<DrawnStrategy(1, MaxGroups, MaxGroups)>>
SampleResult == DrawnResult(SampleMetrics, SampleStrategies)

AnalysisResults ==
    {DrawnResult(metrics, SampleStrategies) : metrics \in DrawnMetricLists}
        \cup {DrawnResult(SampleMetrics, strategies) : strategies \in DrawnStrategyLists}

(***************************************************************************)
(* The export handlers.                                                    *)
(***************************************************************************)
\* the reply that a result shown came from
UpstreamReturning(document) ==
    [kind |-> "response", text |-> Some([wellFormed |-> TRUE, document |-> document]),
     thrown |-> NotAnError]

\* the report is on the page, holding the result `document`
ReportShownWith(document) ==
    /\ variant \in {"credential", "environment"}
    /\ environmentKey = "env-key"
    /\ apiKey = IF variant = "credential" THEN SAMPLE_API_KEY ELSE ""
    /\ isSampleKeyVisible = FALSE
    /\ selectedDataset = DefaultDataset
    /\ customDataset = ""
    /\ selectedAttributes = DefaultAttributes
    /\ isLoading = FALSE
    /\ error = None
    /\ analysisResult = Some(document)
    /\ pending = <<>>
    /\ continuation = "none"
    /\ lastOp = [op |-> "finally", call |-> Some(ShownInvocation),
                 upstream |-> Some(UpstreamReturning(document)),
                 outcome |-> Some(GatewaySettle(UpstreamReturning(document)))]

\* the props of the Dashboard
result == analysisResult[1]

\* the export buttons of the cards: on the page with the report, never disabled
CardExportClickable == ReportDisplayed /\ pdfPc \in {"idle", "rasterizing"}

\* downloadFile, and with it the held result discarded
downloadFileDiscardsResult(content, fileName, mimeType) ==
    /\ downloaded' = Some([content |-> content, fileName |-> fileName, mimeType |-> mimeType])
    /\ showExportMenu' = FALSE
    /\ analysisResult' = None
    /\ UNCHANGED <<variant, environmentKey, apiKey, isSampleKeyVisible, selectedDataset,
                   customDataset, selectedAttributes, isLoading, error, pending,
                   continuation, lastOp, pdfVars>>

\* downloadFile: the blob handed to the browser, setShowExportMenu(false)
downloadFile(content, fileName, mimeType) ==
    /\ downloaded' = Some([content |-> content, fileName |-> fileName, mimeType |-> mimeType])
    /\ showExportMenu' = FALSE
    /\ UNCHANGED <<appVars, pdfVars>>

handleExportJson ==
    /\ UserTurn /\ ExportMenuItemClickable
    /\ pdfPc = "idle"
    /\ downloadFile(JSONstringify(result), "bias_audit_report.json", "application/json")

handleExportMetricsCsv ==
    /\ UserTurn /\ CardExportClickable
    /\ downloadFile(MetricsCsv(result), "fairness_metrics.csv", "text/csv")

handleExportMitigationCsv ==
    /\ UserTurn /\ CardExportClickable
    /\ downloadFile(MitigationCsv(result), "mitigation_strategies.csv", "text/csv")

\* a mousedown outside the export menu: setShowExportMenu(false)
handleClickOutside ==
    /\ UserTurn /\ ReportDisplayed
    /\ pdfPc \in {"idle", "rasterizing"}
    /\ showExportMenu
    /\ showExportMenu' = FALSE
    /\ UNCHANGED <<downloaded, appVars, pdfVars>>

\* the Dashboard mounted with one of the drawn results
InitExport ==
    /\ \E document \in AnalysisResults : ReportShownWith(document)
    /\ PdfIdle
    /\ ExportIdle

NextExport ==
    \/ toggleExportMenu
    \/ handleClickOutside
    \/ handleExportJson
    \/ handleExportMetricsCsv
    \/ handleExportMitigationCsv

SpecExport == InitExport /\ [][NextExport]_vars

\* the Dashboard mounted with the sample result, every export at hand
InitDashboard ==
    /\ ReportShownWith(SampleResult)
    /\ librariesLoaded \in BOOLEAN
    /\ isGeneratingPdf = FALSE
    /\ pdfPc = "idle"
    /\ projectedImageHeight = 0
    /\ pdfHeight = 0
    /\ heightLeft = 0
    /\ position = 0
    /\ pages = <<>>
    /\ saved = FALSE
    /\ alerted = FALSE
    /\ rasterizations = 0
    /\ canvasElements = {}
    /\ ExportIdle

NextDashboard ==
    \/ NextPdf
    \/ handleClickOutside
    \/ handleExportJson
    \/ handleExportMetricsCsv
    \/ handleExportMitigationCsv

SpecDashboard == InitDashboard /\ [][NextDashboard]_vars

\* the Dashboard with its onReset: the report can be left for the form
NextReport ==
    \/ NextDashboard
    \/ resetAnalysis

SpecReport == InitDashboard /\ [][NextReport]_vars

(***************************************************************************)
(* Properties.                                                             *)
(***************************************************************************)
CeilDiv(h, p) == (h + p - 1) \div p

\* C1: once handleExportPdf has saved the document, its number of pages (the
\* initial page plus one per addPage) is ceil(H / P) for the projected image
\* height H > 0 and the page height P > 0; an exact multiple adds no page.
C1_PageCountIsCeiling ==
    saved =>
        /\ projectedImageHeight > 0 /\ pdfHeight > 0
        /\ Len(pages) = CeilDiv(projectedImageHeight, pdfHeight)
        /\ (projectedImageHeight % pdfHeight = 0
                => Len(pages) = projectedImageHeight \div pdfHeight)

\* a document of several pages saved for an image that is an exact multiple
C1_Witness ==
    /\ saved
    /\ projectedImageHeight = 3 * pdfHeight
    /\ Len(pages) = 3

\* the credential the form collects is absent
CredentialAbsent == variant = "credential" /\ apiKey = ""

\* C2 as stated: while the configuration form is shown, the submit control
\* is disabled iff the credential is absent, or no attribute is selected, or
\* the resolved description is empty.
C2_DisabledIffAnyGuardFails ==
    (FormDisplayed /\ UserTurn) =>
        (SubmitDisabled <=>
            (CredentialAbsent \/ Len(selectedAttributes) = 0 \/ ResolvedDescription = ""))

\* C2 amended: while the configuration form is shown, the submit control is
\* disabled iff no attribute is selected or, in the credential-collecting
\* form, the entered credential is empty; neither an empty resolved
\* description nor a missing environment credential disables it.
C2_DisabledIffNoAttributeOrNoEnteredKey ==
    (FormDisplayed /\ UserTurn) =>
        /\ SubmitDisabled <=>
              (Len(selectedAttributes) = 0 \/ (variant = "credential" /\ apiKey = ""))
        /\ RunButtonClickable <=> ~SubmitDisabled

\* the control enabled although the resolved description is empty
C2_Witness ==
    /\ FormDisplayed /\ UserTurn
    /\ ResolvedDescription = ""
    /\ ~SubmitDisabled
    /\ variant = "credential"

\* C3: in the credential-collecting form a submission is entered, and the
\* gateway invoked, only with a non-empty credential, at least one
\* attribute and a non-empty resolved description.
GuardedCall(call) ==
    /\ call.apiKey # None /\ call.apiKey[1] # ""
    /\ Len(call.protectedAttributes) > 0
    /\ call.datasetDescription # ""

C3_SubmitOnlyWhenGuardsPass ==
    variant = "credential" =>
        /\ \A i \in 1..Len(pending) : GuardedCall(pending[i])
        /\ lastOp.op = "submit" =>
              /\ isLoading /\ Len(pending) > 0
              /\ GuardedCall(lastOp.call[1])
              /\ apiKey # "" /\ Len(selectedAttributes) > 0 /\ ResolvedDescription # ""

\* a submission of the custom description has just been entered
C3_Witness ==
    /\ variant = "credential"
    /\ lastOp.op = "submit"
    /\ selectedDataset = "custom"
    /\ Len(pending) = 1

C4_WitnessFailed ==
    /\ lastOp.op = "finally"
    /\ ~lastOp.outcome[1].ok
    /\ FormDisplayed

\* C5: resetAnalysis leaves every field at its default.
C5_ResetRestoresDefaults ==
    lastOp.op = "reset" =>
        /\ apiKey = ""
        /\ isSampleKeyVisible = FALSE
        /\ selectedDataset = DefaultDataset
        /\ customDataset = ""
        /\ selectedAttributes = DefaultAttributes
        /\ analysisResult = None
        /\ error = None

\* the reset has acted, in the form that holds a credential
C5_Witness ==
    /\ lastOp.op = "reset"
    /\ variant = "credential"
    /\ FormDisplayed

\* the messages of the form's own guards
ValidationMessages == {MsgProvideKey, MsgSelectAttribute, MsgDescribeDataset}

\* the state of the form, as the specification names it: Failed holds the
\* message of a gateway failure; a validation message leaves the form in
\* Configuring
FormState ==
    IF isLoading THEN "Submitting"
    ELSE IF analysisResult # None THEN "Showing"
    ELSE IF error # None /\ error[1] \notin ValidationMessages THEN "Failed"
    ELSE "Configuring"

ClaimedMoves ==
    { <<"Configuring", "Submitting">>, <<"Submitting", "Showing">>,
      <<"Submitting", "Failed">>, <<"Showing", "Configuring">>,
      <<"Failed", "Configuring">> }

ActualMoves ==
    { <<"Configuring", "Submitting">>, <<"Submitting", "Showing">>,
      <<"Submitting", "Failed">>, <<"Showing", "Configuring">>,
      <<"Failed", "Submitting">>, <<"Failed", "Configuring">> }

C7_OneOutstandingCall ==
    /\ Len(pending) <= 1
    /\ Len(pending) = 1 => isLoading /\ ~RunButtonClickable
    /\ isLoading => ~RunButtonClickable

\* a submission is outstanding
C7_Witness == Len(pending) = 1 /\ isLoading /\ UserTurn

\* C8 as stated: every invocation has made exactly one outbound call when it
\* settles, whatever its outcome.
C8_ExactlyOneOutboundCall ==
    lastOp.op = "settle" => lastOp.call[1].outbound = 1

\* C8 amended: an invocation makes no outbound call when the environment
\* holds no credential and exactly one otherwise, and none is added after a
\* failure.
ExpectedOutbound == IF environmentKey = "" THEN 0 ELSE 1

C8_AtMostOneOutboundCall ==
    /\ \A i \in 1..Len(pending) : pending[i].outbound = ExpectedOutbound
    /\ lastOp.op \in {"settle", "finally"} =>
          /\ lastOp.call[1].outbound = ExpectedOutbound
          /\ lastOp.call[1].outbound <= 1
          /\ lastOp.upstream = None <=> lastOp.call[1].outbound = 0

\* an invocation whose outbound call was rejected has settled
C8_Witness ==
    /\ lastOp.op = "settle"
    /\ lastOp.upstream # None
    /\ lastOp.upstream[1].kind = "reject"
    /\ ~lastOp.outcome[1].ok

\* the kind of failure an Error thrown by generateBiasAudit tells the caller
HasPrefix(message, prefix) ==
    /\ Len(message) >= Len(prefix)
    /\ SubSeq(message, 1, Len(prefix)) = prefix

Kind(thrown) ==
    IF thrown.message = MsgMissingKey THEN "MissingCredential"
    ELSE IF thrown.message = MsgInvalidKey THEN "AuthError"
    ELSE IF thrown.message = MsgNetwork THEN "NetworkError"
    ELSE IF HasPrefix(thrown.message, UnexpectedPrefix) THEN "UpstreamError"
    ELSE IF thrown.message = MsgGeneric THEN "Generic"
    ELSE "MalformedResponse"

\* what the failure caught by generateBiasAudit reports
ReportsApiKey(cause) == cause.isError /\ Includes(cause.message, "API key")
ReportsTransport(cause) ==
    /\ cause.isError
    /\ \/ Includes(ToLowerCase(cause.message), "failed to fetch")
       \/ Includes(ToLowerCase(cause.message), "network")

\* the last operation is an invocation settling with a failure
SettledWithFailure == lastOp.op = "settle" /\ ~lastOp.outcome[1].ok

\* C9 as stated: a failure is MissingCredential when no credential is
\* available, AuthError when the upstream failure reports an API key
\* problem, NetworkError when it is a transport failure, and UpstreamError
\* carrying the upstream message for every other upstream failure.
C9_FourKindsOfFailure ==
    SettledWithFailure =>
        LET thrown == lastOp.outcome[1].thrown IN
        /\ thrown.isError
        /\ Kind(thrown) \in {"MissingCredential", "AuthError", "NetworkError", "UpstreamError"}
        /\ IF lastOp.upstream = None THEN Kind(thrown) = "MissingCredential"
           ELSE LET cause == TryBlock(lastOp.upstream[1]).thrown IN
                IF ReportsApiKey(cause) THEN Kind(thrown) = "AuthError"
                ELSE IF ReportsTransport(cause) THEN Kind(thrown) = "NetworkError"
                ELSE /\ Kind(thrown) = "UpstreamError"
                     /\ thrown.message = UnexpectedPrefix \o cause.message

\* C9 amended: as stated, and a fifth kind: when the value caught is not an
\* Error the failure is a fixed generic error that carries no upstream
\* message.  Each failure is of exactly one of the five kinds, and a
\* credential is missing exactly when the environment holds none.
C9_FiveKindsOfFailure ==
    SettledWithFailure =>
        LET thrown == lastOp.outcome[1].thrown IN
        /\ thrown.isError
        /\ lastOp.upstream = None <=> environmentKey = ""
        /\ IF lastOp.upstream = None THEN Kind(thrown) = "MissingCredential"
           ELSE LET cause == TryBlock(lastOp.upstream[1]).thrown IN
                IF ~cause.isError
                THEN Kind(thrown) = "Generic" /\ thrown.message = MsgGeneric
                ELSE IF ReportsApiKey(cause) THEN Kind(thrown) = "AuthError"
                ELSE IF ReportsTransport(cause) THEN Kind(thrown) = "NetworkError"
                ELSE /\ Kind(thrown) = "UpstreamError"
                     /\ thrown.message = UnexpectedPrefix \o cause.message

\* an upstream failure that reports both a transport and an API key problem
C9_Witness ==
    /\ SettledWithFailure
    /\ lastOp.upstream # None
    /\ ReportsApiKey(TryBlock(lastOp.upstream[1]).thrown)
    /\ ReportsTransport(TryBlock(lastOp.upstream[1]).thrown)
    /\ Kind(lastOp.outcome[1].thrown) = "AuthError"

\* the returned text does not parse, or the parsed object lacks a summary or
\* fairness metrics
Malformed(upstream) ==
    /\ upstream.kind = "response"
    /\ upstream.text # None
    /\ \/ ~upstream.text[1].wellFormed
       \/ upstream.text[1].document.summary \in {None, Some("")}
       \/ upstream.text[1].document.fairness_metrics \in {None, Some(<<>>)}

\* C10 as stated: a reply that does not parse, or whose summary or
\* fairness_metrics is missing or empty, makes generateBiasAudit fail with a
\* MalformedResponse error, which is no UpstreamError; such an object is
\* never returned.
C10_MalformedReplyIsRejected ==
    (lastOp.op = "settle" /\ lastOp.upstream # None /\ Malformed(lastOp.upstream[1])) =>
        /\ ~lastOp.outcome[1].ok
        /\ Kind(lastOp.outcome[1].thrown) = "MalformedResponse"

\* every field of the form
formFields ==
    <<apiKey, isSampleKeyVisible, selectedDataset, customDataset, selectedAttributes>>

\* handleRunAnalysis has run to its end after a rejected gateway call
FailedRun == lastOp.op = "finally" /\ ~lastOp.outcome[1].ok

\* C11: after a validation failure or a gateway failure the form is editable
\* again: once handleRunAnalysis has ended, isLoading is false, the
\* configuration view is shown with one error message, the submit control
\* can be used again, and no invocation is outstanding (nothing is retried).
C11_FailureLeavesFormEditable ==
    /\ FailedRun =>
          /\ ~isLoading
          /\ FormDisplayed /\ UserTurn
          /\ error = Some(CatchMessage(lastOp.outcome[1].thrown))
          /\ Len(error[1]) > 0
          /\ RunButtonClickable
          /\ pending = <<>>
    /\ lastOp.op = "validation" =>
          /\ ~isLoading
          /\ FormDisplayed /\ UserTurn
          /\ error # None /\ error[1] \in ValidationMessages
          /\ RunButtonClickable
          /\ pending = <<>>

\* a rejected upstream call has left the credential form showing its message
C11_Witness ==
    /\ FailedRun
    /\ lastOp.upstream # None
    /\ variant = "credential"
    /\ error = Some(MsgNetwork)
    /\ RunButtonClickable

\* C12: a run of handleRunAnalysis that a guard stops sets the guard's
\* message and changes nothing else: no invocation is made, and isLoading,
\* analysisResult and every form field stay as they were.  With no attribute
\* selected the guard's message is the one asking for an attribute, with an
\* empty resolved description the one asking for a description.
C12_ValidationChangesOnlyError ==
    [][ /\ lastOp'.op = "validation" =>
              /\ GuardFailure # None
              /\ error' = GuardFailure
              /\ error'[1] \in ValidationMessages
              /\ UNCHANGED <<isLoading, analysisResult, pending, formFields>>
              /\ ~isLoading' /\ analysisResult' = None
        /\ (~CredentialAbsent /\ Len(selectedAttributes) = 0)
              => GuardFailure = Some(MsgSelectAttribute)
        /\ (~CredentialAbsent /\ Len(selectedAttributes) > 0 /\ ResolvedDescription = "")
              => GuardFailure = Some(MsgDescribeDataset) ]_vars

\* the guard on the description has stopped a run
C12_Witness ==
    /\ lastOp.op = "validation"
    /\ error = Some(MsgDescribeDataset)
    /\ selectedDataset = "custom" /\ customDataset = ""
    /\ pending = <<>> /\ ~isLoading

\* the values a gateway call can return
ReturnedValues ==
    {GatewaySettle(upstream).value : upstream \in {u \in UpstreamOutcomes : GatewaySettle(u).ok}}

\* C13: the held analysisResult is null or the whole value one gateway call
\* returned; it is set only when a call resolves, to the value returned, it
\* is cleared only by a submission or by the reset, and it never changes in
\* any other way.
C13_ResultSetAndClearedWhole ==
    [][ /\ analysisResult = None \/ analysisResult \in ReturnedValues
        /\ analysisResult' # analysisResult =>
              \/ /\ analysisResult = None
                 /\ lastOp'.op = "settle"
                 /\ lastOp'.outcome[1].ok
                 /\ analysisResult' = lastOp'.outcome[1].value
                 /\ analysisResult' \in ReturnedValues
              \/ /\ analysisResult' = None
                 /\ lastOp'.op \in {"submit", "reset"}
        /\ (lastOp'.op = "settle" /\ lastOp'.outcome[1].ok)
              => analysisResult' = lastOp'.outcome[1].value
        /\ lastOp'.op \in {"submit", "reset"} => analysisResult' = None ]_vars

\* a resolved call has set the result
C13_Witness ==
    /\ lastOp.op = "settle"
    /\ lastOp.outcome[1].ok
    /\ analysisResult = lastOp.outcome[1].value
    /\ analysisResult # None

\* a file of that name is the one downloaded last
ExportedAs(fileName) == downloaded # None /\ downloaded[1].fileName = fileName

\* C14: parsing the text handleExportJson downloads yields the result held:
\* the same properties, the same lists in the same order, the same values.
C14_JsonExportRoundTrips ==
    ExportedAs("bias_audit_report.json") =>
        /\ downloaded[1].mimeType = "application/json"
        /\ JSONparseExport(downloaded[1].content) = Some(result)

\* the export of a result whose names hold quotes and commas
C14_Witness ==
    /\ ExportedAs("bias_audit_report.json")
    /\ Len(result.fairness_metrics) >= 2
    /\ Len(result.fairness_metrics[2].scores) = 2
    /\ \E i \in 1..Len(result.fairness_metrics[2].name) :
          result.fairness_metrics[2].name[i] = Quote

\* where the line feeds of a text stand, and the k-th of them
LineEnds(text) == {i \in 1..Len(text) : text[i] = LineFeed}
LineEnd(text, k) ==
    CHOOSE i \in LineEnds(text) : Cardinality({j \in LineEnds(text) : j <= i}) = k

\* the lines of a text, each ended by a line feed
Lines(text) ==
    [k \in 1..Cardinality(LineEnds(text)) |->
        SubSeq(text, IF k = 1 THEN 1 ELSE LineEnd(text, k - 1) + 1, LineEnd(text, k) - 1)]
EndsWithLineFeed(text) == text # <<>> /\ text[Len(text)] = LineFeed

WithoutLineFeed(line) == SubSeq(line, 1, Len(line) - 1)

StartsWith(text, prefix) ==
    Len(text) >= Len(prefix) /\ SubSeq(text, 1, Len(prefix)) = prefix
EndsWith(text, suffix) ==
    Len(text) >= Len(suffix)
        /\ SubSeq(text, Len(text) - Len(suffix) + 1, Len(text)) = suffix

RECURSIVE MetricScorePairs(_)
\* every (metric, score) pair, in metric order then score order
MetricScorePairs(metrics) ==
    IF metrics = <<>> THEN <<>>
    ELSE [j \in 1..Len(Head(metrics).scores) |->
              [metric |-> Head(metrics), score |-> Head(metrics).scores[j]]]
            \o MetricScorePairs(Tail(metrics))

RECURSIVE ScoreCount(_)
\* the sum over the metrics of the length of their scores lists
ScoreCount(metrics) ==
    IF metrics = <<>> THEN 0 ELSE Len(Head(metrics).scores) + ScoreCount(Tail(metrics))

\* C15: the metrics CSV starts with the header row "Metric Name","Group",
\* "Score", and has after it as many data rows as the metrics have scores in
\* all, the rows of a metric together, in metric order then score order.
C15_MetricsCsvHeaderAndRowCount ==
    ExportedAs("fairness_metrics.csv") =>
        LET lines == Lines(downloaded[1].content)
            pairs == MetricScorePairs(result.fairness_metrics)
        IN  /\ EndsWithLineFeed(downloaded[1].content)
            /\ Len(lines) >= 1
            /\ lines[1] = WithoutLineFeed(MetricsCsvHeader)
            /\ lines[1] = <<Quote, "Metric Name", Quote, Comma, Quote, "Group", Quote, Comma,
                            Quote, "Score", Quote>>
            /\ Len(lines) - 1 = ScoreCount(result.fairness_metrics)
            /\ Len(pairs) = ScoreCount(result.fairness_metrics)
            /\ \A k \in 1..Len(pairs) :
                  /\ StartsWith(lines[k + 1], <<Quote>> \o pairs[k].metric.name \o <<Quote>>)
                  /\ EndsWith(lines[k + 1], NumberToString(pairs[k].score.score))

\* three metrics of two groups each: six data rows
C15_Witness ==
    /\ ExportedAs("fairness_metrics.csv")
    /\ Len(result.fairness_metrics) = 3
    /\ \A i \in 1..3 : Len(result.fairness_metrics[i].scores) = 2
    /\ Len(Lines(downloaded[1].content)) = 7

\* C16 as stated: in every data row of the metrics CSV the metric name, the
\* group and the score are each written between double quotes.
C16_AllThreeValuesQuoted ==
    ExportedAs("fairness_metrics.csv") =>
        LET lines == Lines(downloaded[1].content)
            pairs == MetricScorePairs(result.fairness_metrics)
        IN  \A k \in 1..Len(pairs) :
                k + 1 <= Len(lines) /\
                lines[k + 1] = <<Quote>> \o pairs[k].metric.name \o <<Quote, Comma, Quote>>
                                  \o pairs[k].score.group \o <<Quote, Comma, Quote>>
                                  \o NumberToString(pairs[k].score.score) \o <<Quote>>

\* C16 amended: in every data row of the metrics CSV the metric name and the
\* group are written between double quotes, as they are (a quote inside
\* them is not escaped), and the score is written without quotes.
C16_NameAndGroupQuotedScoreBare ==
    ExportedAs("fairness_metrics.csv") =>
        LET lines == Lines(downloaded[1].content)
            pairs == MetricScorePairs(result.fairness_metrics)
        IN  \A k \in 1..Len(pairs) :
                k + 1 <= Len(lines) /\
                lines[k + 1] = <<Quote>> \o pairs[k].metric.name \o <<Quote, Comma, Quote>>
                                  \o pairs[k].score.group \o <<Quote, Comma>>
                                  \o NumberToString(pairs[k].score.score)

\* a row whose name holds a quote and whose score is written bare
C16_Witness ==
    /\ ExportedAs("fairness_metrics.csv")
    /\ Len(result.fairness_metrics) >= 2
    /\ Len(result.fairness_metrics[1].scores) = 1
    /\ Len(result.fairness_metrics[2].scores) >= 1
    /\ Lines(downloaded[1].content)[3] =
          <<Quote, "Equal ", Quote, "Opportunity", Quote, Quote, Comma, Quote, "Female", Quote,
            Comma, "0", ".", "6">>

RECURSIVE StrategyScoreEntries(_)
\* every (strategy, status, score) entry: of each strategy its before scores,
\* then its after scores
StrategyScoreEntries(strategies) ==
    IF strategies = <<>> THEN <<>>
    ELSE LET strategy == Head(strategies)
             before == strategy.before_after_metrics.before
             after == strategy.before_after_metrics.after
         IN  [j \in 1..Len(before) |->
                  [strategy |-> strategy, status |-> "Before", score |-> before[j]]]
                \o [j \in 1..Len(after) |->
                        [strategy |-> strategy, status |-> "After", score |-> after[j]]]
                \o StrategyScoreEntries(Tail(strategies))

RECURSIVE BeforeAfterCount(_)
\* the sum over the strategies of |before| + |after|
BeforeAfterCount(strategies) ==
    IF strategies = <<>> THEN 0
    ELSE Len(Head(strategies).before_after_metrics.before)
            + Len(Head(strategies).before_after_metrics.after)
            + BeforeAfterCount(Tail(strategies))

\* C17: the mitigation CSV starts with the header row "Strategy Name",
\* "Metric Name","Status","Group","Score", and has after it one data row per
\* before score and one per after score of every strategy, each with the
\* strategy name, the metric name, the label Before or After, the group and
\* the score, the Before rows of a strategy ahead of its After rows.
C17_MitigationCsvRows ==
    ExportedAs("mitigation_strategies.csv") =>
        LET lines == Lines(downloaded[1].content)
            entries == StrategyScoreEntries(result.mitigation_strategies)
        IN  /\ EndsWithLineFeed(downloaded[1].content)
            /\ Len(lines) >= 1
            /\ lines[1] = <<Quote, "Strategy Name", Quote, Comma, Quote, "Metric Name", Quote,
                            Comma, Quote, "Status", Quote, Comma, Quote, "Group", Quote, Comma,
                            Quote, "Score", Quote>>
            /\ Len(lines) - 1 = BeforeAfterCount(result.mitigation_strategies)
            /\ Len(entries) = BeforeAfterCount(result.mitigation_strategies)
            /\ \A k \in 1..Len(entries) :
                  lines[k + 1] =
                      <<Quote>> \o entries[k].strategy.name \o <<Quote, Comma, Quote>>
                          \o entries[k].strategy.metric_name
                          \o <<Quote, Comma, Quote, entries[k].status, Quote, Comma, Quote>>
                          \o entries[k].score.group \o <<Quote, Comma>>
                          \o NumberToString(entries[k].score.score)

\* two strategies of five scores in all: the header and five rows
C17_Witness ==
    /\ ExportedAs("mitigation_strategies.csv")
    /\ Len(result.mitigation_strategies) = 2
    /\ Len(result.mitigation_strategies[1].before_after_metrics.before) = 2
    /\ Len(result.mitigation_strategies[1].before_after_metrics.after) = 1
    /\ Len(result.mitigation_strategies[2].before_after_metrics.after) = 2
    /\ Len(Lines(downloaded[1].content)) = 6

\* the band of the image that page k (from 1) shows: from its top to its bottom
BandTop(k) == 0 - pages[k]
BandBottom(k) == Min(BandTop(k) + pdfHeight, projectedImageHeight)

\* C18: in the saved document page k (from 0) draws the image at the
\* vertical offset -k*P, so that the bands the pages show follow one another
\* without gap or overlap from 0 to the image height H, none of them empty,
\* and the last one, shorter than a page when H is no multiple of P, is
\* still a page.
C18_BandsCoverImage ==
    saved =>
        /\ Len(pages) >= 1
        /\ \A k \in 1..Len(pages) :
              /\ pages[k] = 0 - (k - 1) * pdfHeight
              /\ BandTop(k) < BandBottom(k)
              /\ k < Len(pages) => BandBottom(k) = BandTop(k + 1)
              /\ k < Len(pages) => BandBottom(k) - BandTop(k) = pdfHeight
        /\ BandTop(1) = 0
        /\ BandBottom(Len(pages)) = projectedImageHeight
        /\ projectedImageHeight % pdfHeight # 0 =>
              BandBottom(Len(pages)) - BandTop(Len(pages)) = projectedImageHeight % pdfHeight

\* a saved document whose third and last page shows a shorter band
C18_Witness ==
    /\ saved
    /\ Len(pages) = 3
    /\ projectedImageHeight % pdfHeight # 0
    /\ BandBottom(3) - BandTop(3) < pdfHeight

\* C19: an export (JSON, metrics CSV, mitigation CSV, PDF) changes nothing
\* of the application: not the result held, the form fields, the error or
\* the loading flag, and it makes no call to the gateway.
C19_ExportsLeaveApplicationState ==
    [][ (exportVars' # exportVars \/ pdfVars' # pdfVars) =>
            /\ analysisResult' = analysisResult
            /\ formFields' = formFields
            /\ error' = error
            /\ isLoading' = isLoading
            /\ pending' = pending
            /\ lastOp' = lastOp ]_vars

\* a file was downloaded and a document saved, the result still held
C19_Witness ==
    /\ downloaded # None
    /\ saved
    /\ analysisResult = Some(SampleResult)
    /\ pending = <<>>

\* C20: a PDF export that fails, for want of the libraries or because the
\* rasterization or the document throws, alerts and saves no document; the
\* report and the result held stay as they were, and isGeneratingPdf is
\* false once the attempt has ended.
C20_FailedExportAlerts ==
    /\ alerted => ~saved
    /\ ~librariesLoaded => (~saved /\ ~isGeneratingPdf /\ pdfPc = "idle" /\ pages = <<>>)
    /\ pdfPc = "idle" => ~isGeneratingPdf
    /\ (pdfPc = "finally" /\ ~saved) => alerted
    /\ ReportDisplayed
    /\ analysisResult = Some(ShownDocument)

\* the rasterization was rejected and the attempt has ended
C20_Witness ==
    /\ alerted
    /\ librariesLoaded
    /\ pdfPc = "idle"
    /\ ~isGeneratingPdf
    /\ pages = <<>>

\* C21: at most one rasterization is outstanding at any time: no step taken
\* while isGeneratingPdf is true starts a rasterization, a rasterization that
\* resolves or rejects hands over to the rest of the handler, whose last step
\* sets isGeneratingPdf to false, and the handler never rests with
\* isGeneratingPdf still true.
C21_OneRasterizationAtATime ==
    [][ /\ rasterizations' \in {0, 1}
        /\ isGeneratingPdf => rasterizations' <= rasterizations
        /\ rasterizations' > rasterizations => isGeneratingPdf'
        /\ rasterizations' < rasterizations => pdfPc' \in {"paginating", "finally"}
        /\ (pdfPc = "finally" /\ pdfPc' # "finally") => ~isGeneratingPdf'
        /\ (pdfPc' = "idle" /\ rasterizations' = 0) => ~isGeneratingPdf' ]_vars

\* a rasterization was started, it resolved, and the handler has ended
C21_Witness ==
    /\ canvasElements # {}
    /\ rasterizations = 0
    /\ pdfPc = "idle"
    /\ ~isGeneratingPdf

\* C22: no export control of the report subtree (the export menu, the reset
\* button, the CSV export buttons of the cards) is drawn on the canvas
\* html2canvas resolves with.
C22_ControlsExcludedFromImage == canvasElements \cap ExportControls = {}

\* C23: a submission made with a credential entered in the form never ends
\* in the MissingCredential failure.
C23_FormCredentialIsTheOneUsed ==
    (/\ lastOp.op \in {"settle", "finally"}
     /\ lastOp.call[1].apiKey # None
     /\ lastOp.call[1].apiKey[1] # "")
        => lastOp.outcome[1] # GatewayMissingKey

\* how many of the three views are rendered
ViewsDisplayed ==
    (IF FormDisplayed THEN 1 ELSE 0) + (IF LoaderDisplayed THEN 1 ELSE 0)
        + (IF ReportDisplayed THEN 1 ELSE 0)

\* C24: in every reachable state exactly one of the form, the loader and the
\* report is displayed, and isLoading is never true while a result is held,
\* the state between setAnalysisResult and setIsLoading(false) included.
C24_ExactlyOneView ==
    /\ ViewsDisplayed = 1
    /\ ~(isLoading /\ analysisResult # None)

C26_HeaderShowsSubmittedInputs ==
    [][ /\ ReportDisplayed' =>
              /\ lastOp'.op \in {"settle", "finally"}
              /\ lastOp'.outcome[1].ok
              /\ analysisResult' = lastOp'.outcome[1].value
              /\ ResolvedDescription' = lastOp'.call[1].datasetDescription
              /\ AttributeList' = lastOp'.call[1].protectedAttributes
        /\ isLoading => (formFields' = formFields /\ lastOp'.op # "reset") ]_vars

\* the report of an analysis of a typed description for one attribute
C26_Witness ==
    /\ ReportDisplayed /\ UserTurn
    /\ selectedDataset = "custom"
    /\ ResolvedDescription = "A churn model trained on support tickets."
    /\ AttributeList = <<"Race">>

\* C27: in the catch block of generateBiasAudit, an Error whose message
\* contains 'API key' becomes the invalid-key error, whether or not the
\* message also mentions the network; an Error whose message matches neither
\* pattern becomes the unexpected-error text followed by the original
\* message; a value that is no Error becomes the fixed generic message.
C27_ErrorMappingPrecedence ==
    (/\ lastOp.op = "settle"
     /\ lastOp.upstream # None
     /\ TryBlock(lastOp.upstream[1]).threw) =>
        LET cause == TryBlock(lastOp.upstream[1]).thrown
            message == lastOp.outcome[1].thrown.message
        IN  /\ ~lastOp.outcome[1].ok
            /\ lastOp.outcome[1].thrown.isError
            /\ ~cause.isError => message = MsgGeneric
            /\ (cause.isError /\ Includes(cause.message, "API key")) => message = MsgInvalidKey
            /\ (cause.isError /\ ~ReportsApiKey(cause) /\ ~ReportsTransport(cause)) =>
                  /\ message = UnexpectedPrefix \o cause.message
                  /\ cause.message # <<>>

\* the quota failure has been wrapped and is shown by the credential form
C27_Witness ==
    /\ lastOp.op = "finally"
    /\ lastOp.upstream # None
    /\ lastOp.upstream[1].thrown = Error(<<"Quota exceeded for this project.">>)
    /\ error = Some(UnexpectedPrefix \o <<"Quota exceeded for this project.">>)

\* C28: a call of handleRunAnalysis that a guard stops sets the message of
\* the first guard that fails, in the order credential, attributes,
\* description, however many of them fail, and that one message is all it
\* sets; a call that no guard stops is one where none fails.
C28_FirstFailingGuardOnly ==
    /\ lastOp.op = "validation" =>
          /\ error # None
          /\ error[1] = (IF CredentialAbsent THEN MsgProvideKey
                         ELSE IF Len(selectedAttributes) = 0 THEN MsgSelectAttribute
                         ELSE MsgDescribeDataset)
          /\ CredentialAbsent \/ Len(selectedAttributes) = 0 \/ ResolvedDescription = ""
          /\ ~isLoading /\ pending = <<>> /\ analysisResult = None
    /\ lastOp.op = "submit" =>
          /\ ~CredentialAbsent /\ Len(selectedAttributes) > 0 /\ ResolvedDescription # ""
          /\ error = None

\* all three guards failed and the credential's message is the one set
C28_Witness ==
    /\ lastOp.op = "validation"
    /\ variant = "credential" /\ apiKey = ""
    /\ selectedAttributes = <<>>
    /\ ResolvedDescription = ""
    /\ error = Some(MsgProvideKey)

\* C29: while isGeneratingPdf is true the "New Analysis" button, the "Export
\* Report" button and the items of the export menu are disabled, and no step
\* discards or replaces the result held.
C29_ResultKeptWhileGenerating ==
    [][ isGeneratingPdf =>
          /\ ~ResetButtonClickable
          /\ ~ExportMenuButtonClickable
          /\ ~ExportMenuItemClickable
          /\ analysisResult # None
          /\ analysisResult' = analysisResult
          /\ lastOp'.op # "reset" ]_vars

\* a CSV was exported from a card while the PDF is being generated
C29_Witness ==
    /\ isGeneratingPdf
    /\ pdfPc = "rasterizing"
    /\ downloaded # None
    /\ downloaded[1].fileName = "mitigation_strategies.csv"
    /\ analysisResult = Some(SampleResult)

\* the attributes a selection holds, whatever their order
Members(set) == {set[i] : i \in 1..Len(set)}

\* C30: handleAttributeToggle changes the membership of the toggled
\* attribute and of no other; from every selection reached, toggling one
\* attribute twice gives back the same set of attributes, toggling two
\* different attributes gives the same set in either order, the selection
\* holds no attribute twice and only attributes of PROTECTED_ATTRIBUTES.
C30_ToggleFlipsOneMembership ==
    [][ /\ lastOp'.op = "handleAttributeToggle" =>
              \E attribute \in AttributeButtons :
                  /\ Has(selectedAttributes', attribute) # Has(selectedAttributes, attribute)
                  /\ Members(selectedAttributes') \ {attribute}
                        = Members(selectedAttributes) \ {attribute}
        /\ \A a \in AttributeButtons :
              /\ Has(Toggled(selectedAttributes, a), a) # Has(selectedAttributes, a)
              /\ Members(Toggled(Toggled(selectedAttributes, a), a)) = Members(selectedAttributes)
              /\ \A b \in AttributeButtons \ {a} :
                    /\ Has(Toggled(selectedAttributes, a), b) = Has(selectedAttributes, b)
                    /\ Members(Toggled(Toggled(selectedAttributes, a), b))
                          = Members(Toggled(Toggled(selectedAttributes, b), a))
        /\ Members(selectedAttributes') \subseteq Members(PROTECTED_ATTRIBUTES)
        /\ Cardinality(Members(selectedAttributes')) = Len(selectedAttributes') ]_vars

\* Gender toggled after Race: the members of the initial selection, held in
\* the other order
C30_Witness ==
    /\ lastOp.op = "handleAttributeToggle"
    /\ selectedAttributes = <<"Race", "Gender">>

====
